---- MODULE Spec2Model ----
(***************************************************************************)
(* The fish store dashboard of src/app.py as a state machine.              *)
(*                                                                         *)
(* The script of app.py runs from top to bottom on every user interaction  *)
(* (a file upload, a widget change).  One action of the model is one such  *)
(* interaction followed by the whole run of the script: load_data, the     *)
(* sidebar widgets, the filter of lines 44-47 and the selected section.    *)
(*                                                                         *)
(* Columns are named by identifiers:                                       *)
(*   Date, DateOfSale, RestockDate   'Date', 'Date of Sale', 'Restock Date'*)
(*   FishType, FishSize              'Fish Type', 'Fish Size'              *)
(*   Supplier                        'Supplier Information'                *)
(*   CustomerType, CustomerLocation  'Customer Type', 'Customer Location'  *)
(*   SalesChannel                    'Sales Channel'                       *)
(*   Quantity                        'Quantity Sold (kg)'                  *)
(*   Sales, Cost                     'Total Sales Value (NGN)',            *)
(*                                   'Total Supply Cost (NGN)'             *)
(*   CostPerUnit, PricePerUnit       'Cost per Unit Supply (NGN)',         *)
(*                                   'Price per Unit Sold (NGN)'           *)
(*   Profit                          'Profit'                              *)
(* A date is <<year, month, day>>.  A missing category value is NaN.       *)
(***************************************************************************)
EXTENDS Integers, Sequences, FiniteSets, TLC

VARIABLES
    uploaded_file,     \* the CSV handed over by st.sidebar.file_uploader, or NoFile
    df,                \* the table load_data returned, or None
    error,             \* TRUE when st.error("Error loading dataset: ...") is shown
    date_range,        \* value of the date_input widget: a tuple of 1 or 2 dates
    fish_type_filter,  \* value of the 'Select Fish Type' multiselect
    supplier_filter,   \* value of the 'Select Supplier' multiselect
    filtered_df,       \* rows of the filtered table of lines 44-47
    option,            \* value of the 'Select an Analysis' radio
    result,            \* the aggregation results of the section that was rendered
    pc                 \* where the last run of the script ended

vars == <<uploaded_file, df, error, date_range, fish_type_filter,
          supplier_filter, filtered_df, option, result, pc>>

----------------------------------------------------------------------------
(* Bounds of the model *)

MaxRows == 2

MaxDefectRows == 1

MaxTopRows == 8

MaxResRows == 2

(* nlargest(5) of line 143 *)
TopN == 5

----------------------------------------------------------------------------
(* Values *)

NaN == "nan"

DateColumns == {"Date", "DateOfSale", "RestockDate"}

NumericColumns == {"Quantity", "Sales", "Cost", "CostPerUnit", "PricePerUnit"}

CategoryColumns == {"FishType", "FishSize", "Supplier", "CustomerType",
                    "CustomerLocation", "SalesChannel"}

Schema == DateColumns \cup NumericColumns \cup CategoryColumns

(* Category values in lexicographic order; groupby sorts its keys in it. *)
SortedStrings == <<"A", "Abuja", "B", "Bonga", "Catfish", "Croaker", "In-store",
                   "Lagos", "Large", "Mackerel", "Medium", "Online", "Retail",
                   "Sardine", "Tilapia", "Titus", "Wholesale">>

Rank(s) == CHOOSE i \in 1..Len(SortedStrings) : SortedStrings[i] = s

FishNames == <<"Bonga", "Catfish", "Croaker", "Mackerel", "Sardine", "Tilapia", "Titus">>

DateLE(a, b) ==
    \/ a[1] < b[1]
    \/ a[1] = b[1] /\ a[2] < b[2]
    \/ a[1] = b[1] /\ a[2] = b[2] /\ a[3] <= b[3]

DateLT(a, b) == DateLE(a, b) /\ a # b

MinDate(S) == CHOOSE d \in S : \A e \in S : DateLE(d, e)

MaxDate(S) == CHOOSE d \in S : \A e \in S : DateLE(e, d)

Range(s) == {s[i] : i \in DOMAIN s}

(* One CSV line.  profit is the cell of a 'Profit' column the file may carry. *)
MkRow(date, fish, supplier, sales, cost, size, ctype, loc, channel, profit) ==
    [Date |-> date, DateOfSale |-> date, RestockDate |-> date,
     FishType |-> fish, FishSize |-> size, Supplier |-> supplier,
     CustomerType |-> ctype, CustomerLocation |-> loc, SalesChannel |-> channel,
     Quantity |-> sales \div 100, Sales |-> sales, Cost |-> cost,
     CostPerUnit |-> cost \div 10, PricePerUnit |-> sales \div 10,
     Profit |-> profit]

(* A CSV file: its header, its lines, and the cells <<line, column>> whose  *)
(* text is not a date (in a date column) or not a number (in a numeric one). *)
MkFile(cols, rows, bad) == [cols |-> cols, rows |-> rows, bad |-> bad]

NoFile == MkFile({}, <<>>, {})

None == [cols |-> {}, obj |-> {}, rows |-> <<>>]

NoResult ==
    [metrics |-> <<>>, describe |-> <<>>, monthly_sales |-> <<>>,
     fish_type_counts |-> <<>>, annual_cost |-> <<>>, annual_price |-> <<>>,
     monthly_profit |-> <<>>, product_type_freq |-> <<>>, fish_size_freq |-> <<>>,
     top_revenue |-> <<>>, supplier_profit |-> <<>>, supplier_quantity |-> <<>>,
     avg_profit |-> <<>>, customer_profit |-> <<>>, sales_channel |-> <<>>,
     total_sales_location |-> <<>>]

Options == {"Overview", "Trend Analysis", "Product Analysis",
            "Brand Supplier Analysis", "Customer Behavioural Analysis"}

----------------------------------------------------------------------------
(* load_data, lines 10-19 *)

(* read_csv leaves a column of dtype object when one of its cells does not *)
(* parse; it raises only for a parse_dates column that is missing.         *)
ObjectColumns(file) == {c \in file.cols : \E i \in 1..Len(file.rows) : <<i, c>> \in file.bad}

LoadRaises(file) ==
    \/ ~(DateColumns \subseteq file.cols)                       \* line 13: ValueError
    \/ ~({"Sales", "Cost"} \subseteq file.cols)                 \* line 14: KeyError
    \/ ObjectColumns(file) \cap {"Sales", "Cost"} # {}          \* line 14: TypeError

load_data_keep_profit(file) ==
    IF LoadRaises(file) THEN None
    ELSE [cols |-> (file.cols \cup {"Profit"}) \ {"Date"},
          obj  |-> ObjectColumns(file) \ {"Profit"},
          rows |-> [i \in 1..Len(file.rows) |->
                      LET r == file.rows[i]
                      IN  IF "Profit" \in file.cols THEN r
                          ELSE [r EXCEPT !.Profit = r.Sales - r.Cost]]]

RECURSIVE InsertByDate(_, _)
InsertByDate(s, r) ==
    IF s = <<>> THEN <<r>>
    ELSE IF DateLT(r.Date, s[1].Date) THEN <<r>> \o s
    ELSE <<s[1]>> \o InsertByDate(Tail(s), r)

RECURSIVE SortByDate(_)
SortByDate(s) ==
    IF s = <<>> THEN <<>>
    ELSE InsertByDate(SortByDate(SubSeq(s, 1, Len(s) - 1)), s[Len(s)])

load_data_sorted(file) ==
    IF LoadRaises(file) THEN None
    ELSE [cols |-> (file.cols \cup {"Profit"}) \ {"Date"},
          obj  |-> ObjectColumns(file) \ {"Profit"},
          rows |-> SortByDate([i \in 1..Len(file.rows) |->
                      LET r == file.rows[i]
                      IN  [r EXCEPT !.Profit = r.Sales - r.Cost]])]

load_data(file) ==
    IF LoadRaises(file) THEN None
    ELSE [cols |-> (file.cols \cup {"Profit"}) \ {"Date"},
          obj  |-> ObjectColumns(file) \ {"Profit"},
          rows |-> [i \in 1..Len(file.rows) |->
                      LET r == file.rows[i]
                      IN  [r EXCEPT !.Profit = r.Sales - r.Cost]]]

----------------------------------------------------------------------------
(* Sidebar widgets, lines 34-41 *)

(* df.index.min().date() raises on an empty table (NaT) and on an index of *)
(* strings; df['Fish Type'] raises KeyError when the column is missing.    *)
SidebarRaises(d) ==
    \/ Len(d.rows) = 0
    \/ "Date" \in d.obj
    \/ "FishType" \notin d.cols
    \/ "Supplier" \notin d.cols

Unique(d, col) == {d.rows[i][col] : i \in 1..Len(d.rows)}

DefaultDateRange(d) ==
    <<MinDate(Unique(d, "Date")), MaxDate(Unique(d, "Date"))>>

----------------------------------------------------------------------------
(* Filter, lines 44-47 *)

isin_never_nan(x, allowed) == x # NaN /\ x \in allowed

isin_always_nan(x, allowed) == x = NaN \/ x \in allowed

(* Series.isin: a missing value matches a missing value of the list. *)
isin(x, allowed) == x \in allowed

FilterRaises(dr) == Len(dr) < 2                                 \* date_range[1]: IndexError

Keep_strict(r, dr, fish, sup) ==
    /\ DateLT(dr[1], r.Date)
    /\ DateLT(r.Date, dr[2])
    /\ isin(r.FishType, fish)
    /\ isin(r.Supplier, sup)

Keep(r, dr, fish, sup) ==
    /\ DateLE(dr[1], r.Date)
    /\ DateLE(r.Date, dr[2])
    /\ isin(r.FishType, fish)
    /\ isin(r.Supplier, sup)

RECURSIVE Filter(_, _, _, _)
Filter(rows, dr, fish, sup) ==
    IF rows = <<>> THEN <<>>
    ELSE (IF Keep(rows[1], dr, fish, sup) THEN <<rows[1]>> ELSE <<>>)
         \o Filter(Tail(rows), dr, fish, sup)

----------------------------------------------------------------------------
(* Aggregations used by the sections, lines 57-199 *)

SelectRows(rows, col, key) == SelectSeq(rows, LAMBDA r : r[col] = key)

RECURSIVE Sum(_, _)
Sum(rows, col) ==
    IF rows = <<>> THEN 0 ELSE rows[1][col] + Sum(Tail(rows), col)

Values(rows, col) == {rows[i][col] : i \in 1..Len(rows)}

Least(S) == IF S = {} THEN {} ELSE {CHOOSE x \in S : \A y \in S : x <= y}

Greatest(S) == IF S = {} THEN {} ELSE {CHOOSE x \in S : \A y \in S : y <= x}

DescribeOrder == <<"Quantity", "Sales", "Cost", "CostPerUnit", "PricePerUnit", "Profit">>

Describe_empty(cols, rows) ==
    IF rows = <<>> THEN <<>>
    ELSE LET present == SelectSeq(DescribeOrder, LAMBDA c : c \in cols)
         IN  [i \in 1..Len(present) |->
                [column |-> present[i], count |-> Len(rows),
                 sum |-> Sum(rows, present[i]),
                 min |-> Least(Values(rows, present[i])),
                 max |-> Greatest(Values(rows, present[i]))]]

(* DataFrame.describe(): one entry per numeric column with its count, its  *)
(* mean (sum / count, NaN when count = 0), min and max ({} stands for NaN). *)
(* The standard deviation and the quartiles are left out.                  *)
Describe(cols, rows) ==
    LET present == SelectSeq(DescribeOrder, LAMBDA c : c \in cols)
    IN  [i \in 1..Len(present) |->
            [column |-> present[i], count |-> Len(rows),
             sum |-> Sum(rows, present[i]),
             min |-> Least(Values(rows, present[i])),
             max |-> Greatest(Values(rows, present[i]))]]

MonthOrd(d) == d[1] * 12 + d[2] - 1

MonthOf(p) == <<p \div 12, (p % 12) + 1>>

YearOrd(d) == d[1]

InMonth(rows, p) == SelectSeq(rows, LAMBDA r : MonthOrd(r.Date) = p)

InYear(rows, y) == SelectSeq(rows, LAMBDA r : YearOrd(r.Date) = y)

Ascending(S) ==
    LET lo == CHOOSE x \in S : \A y \in S : x <= y
        hi == CHOOSE x \in S : \A y \in S : y <= x
    IN  [i \in 1..(hi - lo + 1) |-> lo + i - 1]

RECURSIVE AscendingOnly(_)
AscendingOnly(S) ==
    IF S = {} THEN <<>>
    ELSE LET lo == CHOOSE x \in S : \A y \in S : x <= y
         IN  <<lo>> \o AscendingOnly(S \ {lo})

MonthlySum_populated(rows, col) ==
    IF rows = <<>> THEN <<>>
    ELSE LET bins == AscendingOnly({MonthOrd(rows[i].Date) : i \in 1..Len(rows)})
         IN  [i \in 1..Len(bins) |->
                [period |-> MonthOf(bins[i]), value |-> Sum(InMonth(rows, bins[i]), col)]]

(* Series.resample('M').sum(): one bin per calendar month from the first to *)
(* the last month of the index; a month without rows sums to 0.            *)
MonthlySum(rows, col) ==
    IF rows = <<>> THEN <<>>
    ELSE LET bins == Ascending({MonthOrd(rows[i].Date) : i \in 1..Len(rows)})
         IN  [i \in 1..Len(bins) |->
                [period |-> MonthOf(bins[i]), value |-> Sum(InMonth(rows, bins[i]), col)]]

(* Series.resample('A').mean(): one bin per calendar year from the first to *)
(* the last year; the mean is sum / n, NaN (n = 0) for a year without rows. *)
AnnualMean(rows, col) ==
    IF rows = <<>> THEN <<>>
    ELSE LET bins == Ascending({YearOrd(rows[i].Date) : i \in 1..Len(rows)})
         IN  [i \in 1..Len(bins) |->
                [period |-> bins[i], sum |-> Sum(InYear(rows, bins[i]), col),
                 n |-> Len(InYear(rows, bins[i]))]]

RECURSIVE FirstSeen(_, _)
FirstSeen(rows, col) ==
    IF rows = <<>> THEN <<>>
    ELSE LET rest == FirstSeen(SubSeq(rows, 1, Len(rows) - 1), col)
             k    == rows[Len(rows)][col]
         IN  IF k = NaN \/ k \in Range(rest) THEN rest ELSE Append(rest, k)

RECURSIVE ByRank(_)
ByRank(S) ==
    IF S = {} THEN <<>>
    ELSE LET lo == CHOOSE x \in S : \A y \in S : Rank(x) <= Rank(y)
         IN  <<lo>> \o ByRank(S \ {lo})

GroupKeys_first_seen(rows, col) == FirstSeen(rows, col)

(* groupby(col): the groups are the non-null values, in sorted key order. *)
GroupKeys(rows, col) == ByRank(Values(rows, col) \ {NaN})

GroupSum(rows, col, val) ==
    LET keys == GroupKeys(rows, col)
    IN  [i \in 1..Len(keys) |->
            [key |-> keys[i], value |-> Sum(SelectRows(rows, col, keys[i]), val)]]

GroupMean(rows, col, val) ==
    LET keys == GroupKeys(rows, col)
    IN  [i \in 1..Len(keys) |->
            [key |-> keys[i], sum |-> Sum(SelectRows(rows, col, keys[i]), val),
             n |-> Len(SelectRows(rows, col, keys[i]))]]

(* groupby([colA, colB]): the pairs that occur, sorted by colA then colB. *)
GroupSum2(rows, colA, colB, val) ==
    LET a == GroupKeys(rows, colA)
        pairs(i) == LET sub == SelectRows(rows, colA, a[i])
                        b   == GroupKeys(sub, colB)
                    IN  [j \in 1..Len(b) |->
                            [key |-> <<a[i], b[j]>>,
                             value |-> Sum(SelectRows(sub, colB, b[j]), val)]]
        cat[i \in 0..Len(a)] == IF i = 0 THEN <<>> ELSE cat[i - 1] \o pairs(i)
    IN  cat[Len(a)]

Without(s, i) == SubSeq(s, 1, i - 1) \o SubSeq(s, i + 1, Len(s))

RECURSIVE nlargest_keep_last(_, _)
nlargest_keep_last(s, n) ==
    IF n = 0 \/ s = <<>> THEN <<>>
    ELSE LET i == CHOOSE i \in 1..Len(s) :
                     /\ \A j \in 1..Len(s) : s[j].value <= s[i].value
                     /\ \A j \in (i + 1)..Len(s) : s[j].value < s[i].value
         IN  <<s[i]>> \o nlargest_keep_last(Without(s, i), n - 1)

(* Series.nlargest(n), keep='first': the n largest in descending order, *)
(* equal values in the order they have in the series.                   *)
RECURSIVE nlargest(_, _)
nlargest(s, n) ==
    IF n = 0 \/ s = <<>> THEN <<>>
    ELSE LET i == CHOOSE i \in 1..Len(s) :
                     /\ \A j \in 1..Len(s) : s[j].value <= s[i].value
                     /\ \A j \in 1..(i - 1) : s[j].value < s[i].value
         IN  <<s[i]>> \o nlargest(Without(s, i), n - 1)

(* Series.value_counts(): the count of each non-null value, largest first. *)
ValueCounts(rows, col) ==
    LET keys == FirstSeen(rows, col)
        counts == [i \in 1..Len(keys) |->
                     [key |-> keys[i], value |-> Len(SelectRows(rows, col, keys[i]))]]
    IN  nlargest(counts, Len(counts))

----------------------------------------------------------------------------
(* Sections, lines 57-199 *)

Needs(opt) ==
    CASE opt = "Overview" -> {"Profit", "Sales", "Quantity", "FishType"}
      [] opt = "Trend Analysis" -> {"CostPerUnit", "PricePerUnit", "Profit"}
      [] opt = "Product Analysis" -> {"FishType", "Quantity", "FishSize", "Sales"}
      [] opt = "Brand Supplier Analysis" -> {"Supplier", "Profit", "Quantity"}
      [] opt = "Customer Behavioural Analysis" ->
            {"CustomerType", "Profit", "CustomerLocation", "SalesChannel",
             "Quantity", "Sales"}

(* A section raises KeyError when it names a column the table lacks. *)
SectionRaises(cols, opt) == ~(Needs(opt) \subseteq cols)

Overview(cols, rows) ==
    [NoResult EXCEPT
        !.metrics = <<Sum(rows, "Profit"), Sum(rows, "Sales"), Sum(rows, "Quantity")>>,
        !.describe = Describe(cols, rows),
        !.monthly_sales = MonthlySum(rows, "Sales"),
        !.fish_type_counts = ValueCounts(rows, "FishType")]

TrendAnalysis(rows) ==
    [NoResult EXCEPT
        !.annual_cost = AnnualMean(rows, "CostPerUnit"),
        !.annual_price = AnnualMean(rows, "PricePerUnit"),
        !.monthly_profit = MonthlySum(rows, "Profit")]

ProductAnalysis(rows) ==
    [NoResult EXCEPT
        !.product_type_freq = GroupSum(rows, "FishType", "Quantity"),
        !.fish_size_freq = GroupSum(rows, "FishSize", "Quantity"),
        !.top_revenue = nlargest(GroupSum(rows, "FishType", "Sales"), TopN)]

BrandSupplierAnalysis(rows) ==
    [NoResult EXCEPT
        !.supplier_profit = GroupSum(rows, "Supplier", "Profit"),
        !.supplier_quantity = GroupSum(rows, "Supplier", "Quantity"),
        !.avg_profit = GroupMean(rows, "Supplier", "Profit")]

CustomerBehaviouralAnalysis(rows) ==
    [NoResult EXCEPT
        !.customer_profit = GroupSum(rows, "CustomerType", "Profit"),
        !.sales_channel = GroupSum2(rows, "CustomerLocation", "SalesChannel", "Quantity"),
        !.total_sales_location = GroupSum(rows, "CustomerLocation", "Sales")]

Section(cols, rows, opt) ==
    CASE opt = "Overview" -> Overview(cols, rows)
      [] opt = "Trend Analysis" -> TrendAnalysis(rows)
      [] opt = "Product Analysis" -> ProductAnalysis(rows)
      [] opt = "Brand Supplier Analysis" -> BrandSupplierAnalysis(rows)
      [] opt = "Customer Behavioural Analysis" -> CustomerBehaviouralAnalysis(rows)

----------------------------------------------------------------------------
(* One run of the script, lines 23-203 *)

(* The values the widgets hold from the previous run.  Streamlit drops the *)
(* value of a widget the previous run did not reach, and the widget then   *)
(* takes its default.                                                      *)
NoWidgets ==
    [filters |-> FALSE, date_range |-> <<>>, fish |-> {}, sup |-> {},
     radio |-> FALSE, option |-> "Overview"]

Outcome(file, d, err, dr, fish, sup, frows, opt, res, at) ==
    [uploaded_file |-> file, df |-> d, error |-> err, date_range |-> dr,
     fish_type_filter |-> fish, supplier_filter |-> sup, filtered_df |-> frows,
     option |-> opt, result |-> res, pc |-> at]

Script(file, w) ==
    IF file = NoFile                                            \* line 25, else at 201
    THEN Outcome(NoFile, None, FALSE, <<>>, {}, {}, <<>>, "Overview", NoResult, "no_file")
    ELSE
    LET d == load_data(file) IN                                 \* line 27
    IF d = None                                                 \* line 29
    THEN Outcome(file, None, TRUE, <<>>, {}, {}, <<>>, "Overview", NoResult, "load_failed")
    ELSE IF SidebarRaises(d)                                    \* lines 34-41
    THEN Outcome(file, d, FALSE, <<>>, {}, {}, <<>>, "Overview", NoResult, "sidebar_raised")
    ELSE
    LET dr   == IF w.filters THEN w.date_range ELSE DefaultDateRange(d)
        fish == IF w.filters THEN w.fish ELSE Unique(d, "FishType")
        sup  == IF w.filters THEN w.sup ELSE Unique(d, "Supplier")
    IN
    IF FilterRaises(dr)                                         \* lines 44-47
    THEN Outcome(file, d, FALSE, dr, fish, sup, <<>>, "Overview", NoResult, "filter_raised")
    ELSE
    LET frows == Filter(d.rows, dr, fish, sup)
        opt   == IF w.radio THEN w.option ELSE "Overview"       \* line 51
    IN
    IF SectionRaises(d.cols, opt)                               \* lines 57-199
    THEN Outcome(file, d, FALSE, dr, fish, sup, frows, opt, NoResult, "section_raised")
    ELSE Outcome(file, d, FALSE, dr, fish, sup, frows, opt,
                 Section(d.cols, frows, opt), "rendered")

Becomes(o) ==
    /\ uploaded_file' = o.uploaded_file
    /\ df' = o.df
    /\ error' = o.error
    /\ date_range' = o.date_range
    /\ fish_type_filter' = o.fish_type_filter
    /\ supplier_filter' = o.supplier_filter
    /\ filtered_df' = o.filtered_df
    /\ option' = o.option
    /\ result' = o.result
    /\ pc' = o.pc

FiltersShown == pc \in {"filter_raised", "section_raised", "rendered"}

RadioShown == pc \in {"section_raised", "rendered"}

Widgets ==
    [filters |-> FiltersShown, date_range |-> date_range, fish |-> fish_type_filter,
     sup |-> supplier_filter, radio |-> RadioShown, option |-> option]

----------------------------------------------------------------------------
(* The files the user uploads *)

J5 == <<2024, 1, 5>>

F1 == <<2024, 2, 1>>

F10 == <<2024, 2, 10>>

(* The dates the date picker is set to. *)
PickDates == {J5, F1, F10}

(* The two rows of the scenario of the specification, and two rows with a *)
(* missing category.                                                      *)
RowUniverse ==
    {MkRow(J5, "Tilapia", "A", 1000, 600, "Large", "Retail", "Lagos", "In-store", 0),
     MkRow(F10, "Catfish", "B", 500, 300, "Medium", "Wholesale", "Abuja", "Online", 0),
     MkRow(F10, NaN, "A", 500, 600, "Medium", "Retail", "Lagos", "Online", 0),
     MkRow(J5, "Tilapia", NaN, 1000, 300, "Large", "Wholesale", "Abuja", "In-store", 0)}

SeqsUpTo(S, n) == UNION {[1..k -> S] : k \in 0..n}

(* Files that follow the schema.  Every line has a date in its Date cell. *)
CleanFiles == {MkFile(Schema, rows, {}) : rows \in SeqsUpTo(RowUniverse, MaxRows)}

(* Files with one defect: a column of the schema is missing, one cell of a *)
(* date column or of the two columns Profit is computed from does not      *)
(* parse, or the file carries a Profit column of its own.                  *)
DefectFiles ==
    LET tables == SeqsUpTo(RowUniverse, MaxDefectRows)
    IN  {MkFile(Schema \ {c}, rows, {}) : c \in Schema, rows \in tables}
        \cup UNION {{MkFile(Schema, rows, {<<i, c>>}) :
                        i \in 1..Len(rows), c \in DateColumns \cup {"Sales", "Cost"}} :
                     rows \in tables}
        \cup {MkFile(Schema \cup {"Profit"}, rows, {}) : rows \in tables}

Files == CleanFiles \cup DefectFiles

----------------------------------------------------------------------------
(* Actions *)

Is(o) ==
    /\ uploaded_file = o.uploaded_file
    /\ df = o.df
    /\ error = o.error
    /\ date_range = o.date_range
    /\ fish_type_filter = o.fish_type_filter
    /\ supplier_filter = o.supplier_filter
    /\ filtered_df = o.filtered_df
    /\ option = o.option
    /\ result = o.result
    /\ pc = o.pc

(* No file has been uploaded: the script ends in the else branch of line 201. *)
Init == Is(Script(NoFile, NoWidgets))

(* The user uploads a file (line 23). *)
Upload(f) ==
    /\ uploaded_file = NoFile
    /\ Becomes(Script(f, NoWidgets))

(* The user removes the uploaded file. *)
RemoveFile ==
    /\ uploaded_file # NoFile
    /\ Becomes(Script(NoFile, NoWidgets))

(* The user changes the date picker (line 34): one date, or two. *)
SetDateRange(v) ==
    /\ FiltersShown
    /\ v # date_range
    /\ Becomes(Script(uploaded_file, [Widgets EXCEPT !.date_range = v]))

(* The user changes the fish type multiselect (line 36). *)
SetFishTypes(S) ==
    /\ FiltersShown
    /\ S # fish_type_filter
    /\ Becomes(Script(uploaded_file, [Widgets EXCEPT !.fish = S]))

(* The user changes the supplier multiselect (line 39). *)
SetSuppliers(S) ==
    /\ FiltersShown
    /\ S # supplier_filter
    /\ Becomes(Script(uploaded_file, [Widgets EXCEPT !.sup = S]))

(* The user selects a section (line 51). *)
SetOption(o) ==
    /\ RadioShown
    /\ o # option
    /\ Becomes(Script(uploaded_file, [Widgets EXCEPT !.option = o]))

(* One date (only the start of the range chosen so far) or two; the pairs  *)
(* include start > end.                                                   *)
DateRanges == {<<a>> : a \in PickDates} \cup (PickDates \X PickDates)

Next ==
    \/ \E f \in Files : Upload(f)
    \/ RemoveFile
    \/ \E v \in DateRanges : SetDateRange(v)
    \/ \E S \in SUBSET Unique(df, "FishType") : SetFishTypes(S)
    \/ \E S \in SUBSET Unique(df, "Supplier") : SetSuppliers(S)
    \/ \E o \in Options : SetOption(o)

Spec == Init /\ [][Next]_vars

----------------------------------------------------------------------------
(* The sections on their own: a file is uploaded and rendered with the     *)
(* default filter selection, and the user goes through the sections.       *)

Strides == {1, 3, 6}

SalesValues == {100, 200}

TopRow(i, stride, sales) ==
    MkRow(J5, FishNames[(((i - 1) * stride) % Len(FishNames)) + 1], "A", sales, 100,
          "Medium", "Retail", "Lagos", "Online", 0)

(* Tables of up to MaxTopRows rows whose fish types appear in sorted order *)
(* (stride 1), in a scattered order (stride 3) or in reverse order, with   *)
(* or without a leading row that has no fish type.                         *)
TopFiles ==
    {MkFile(Schema,
            (IF lead THEN <<MkRow(J5, NaN, "A", 200, 100, "Medium", "Retail",
                                  "Lagos", "Online", 0)>> ELSE <<>>)
            \o [i \in 1..Len(sales) |-> TopRow(i, stride, sales[i])], {}) :
        lead \in BOOLEAN, stride \in Strides, sales \in SeqsUpTo(SalesValues, MaxTopRows)}

ResampleDates == {<<2024, 1, 5>>, <<2024, 1, 20>>, <<2024, 3, 10>>, <<2026, 2, 1>>}

ResampleRows ==
    {MkRow(d, "Tilapia", "A", sales, 100, "Medium", "Retail", "Lagos", "Online", 0) :
        d \in ResampleDates, sales \in SalesValues}

ResampleFiles ==
    {MkFile(Schema, rows, {}) : rows \in SeqsUpTo(ResampleRows, MaxResRows)}

SectionFiles == TopFiles \cup ResampleFiles

InitSections == \E f \in SectionFiles : Is(Script(f, NoWidgets))

NextSections == \E o \in Options : SetOption(o)

SpecSections == InitSections /\ [][NextSections]_vars

----------------------------------------------------------------------------
(* Properties *)

(* The run of the script got past the filter of lines 44-47. *)
FilterDone == pc \in {"section_raised", "rendered"}

Loaded == df # None

Matches(r) ==
    /\ DateLE(date_range[1], r.Date)
    /\ DateLE(r.Date, date_range[2])
    /\ r.FishType \in fish_type_filter
    /\ r.Supplier \in supplier_filter

(* s holds exactly the elements of t at the indices of `kept`, in order. *)
IsSelection(s, t, kept) ==
    /\ Len(s) = Cardinality(kept)
    /\ \E f \in [1..Len(s) -> kept] :
          /\ \A a, b \in 1..Len(s) : a < b => f[a] < f[b]
          /\ \A a \in 1..Len(s) : s[a] = t[f[a]]

(* C1: the filtered table holds exactly the rows of the loaded table whose *)
(* day lies in [start, end], whose fish type is among the allowed fish     *)
(* types and whose supplier is among the allowed suppliers, in the order   *)
(* of the loaded table; an empty allowed set or start > end gives an empty *)
(* filtered table.                                                         *)
C1_FilterIsConjunction ==
    FilterDone =>
        /\ IsSelection(filtered_df, df.rows,
                       {i \in 1..Len(df.rows) : Matches(df.rows[i])})
        /\ (\/ fish_type_filter = {}
            \/ supplier_filter = {}
            \/ DateLT(date_range[2], date_range[1])) => filtered_df = <<>>

C1_Witness ==
    /\ pc = "rendered"
    /\ Len(df.rows) = 2
    /\ Len(filtered_df) = 1
    /\ date_range = <<F1, F10>>
    /\ fish_type_filter # Unique(df, "FishType")

Malformed(file) == ~(Schema \subseteq file.cols) \/ file.bad # {}

(* C2: a file with a missing column of the schema, an unparseable date or  *)
(* a non-numeric value in a numeric column ends in the error outcome: the  *)
(* error is shown and there is no table.                                   *)
C2_MalformedFileIsRejected ==
    (uploaded_file # NoFile /\ Malformed(uploaded_file))
        => (pc = "load_failed" /\ error /\ df = None)

(* C3: after a successful load the filter step never raises, whatever the  *)
(* widgets hand over.                                                      *)
C3_FilterNeverRaises == pc # "filter_raised"

ResultFields(opt) ==
    CASE opt = "Overview" -> {"metrics", "describe", "monthly_sales", "fish_type_counts"}
      [] opt = "Trend Analysis" -> {"annual_cost", "annual_price", "monthly_profit"}
      [] opt = "Product Analysis" -> {"product_type_freq", "fish_size_freq", "top_revenue"}
      [] opt = "Brand Supplier Analysis" ->
            {"supplier_profit", "supplier_quantity", "avg_profit"}
      [] opt = "Customer Behavioural Analysis" ->
            {"customer_profit", "sales_channel", "total_sales_location"}

C5_LoadedRowsSortedByDate ==
    (Loaded /\ "Date" \notin df.obj) =>
        /\ \A i, j \in 1..Len(df.rows) :
              i < j => DateLE(df.rows[i].Date, df.rows[j].Date)
        /\ \A i, j \in 1..Len(df.rows) :
              (i < j /\ df.rows[i].Date = df.rows[j].Date) =>
                  \E a, b \in 1..Len(uploaded_file.rows) :
                      /\ a < b
                      /\ \A c \in Schema : uploaded_file.rows[a][c] = df.rows[i][c]
                      /\ \A c \in Schema : uploaded_file.rows[b][c] = df.rows[j][c]

(* C5 amended: the rows of the loaded table are the lines of the file in   *)
(* the order of the file; load_data does not sort.                         *)
C5_LoadedRowsInFileOrder ==
    Loaded =>
        /\ Len(df.rows) = Len(uploaded_file.rows)
        /\ \A i \in 1..Len(df.rows) :
              \A c \in Schema : df.rows[i][c] = uploaded_file.rows[i][c]

C5_Witness ==
    /\ Loaded
    /\ Len(df.rows) = 2
    /\ DateLT(df.rows[2].Date, df.rows[1].Date)

DefaultSelection ==
    /\ Len(date_range) = 2
    /\ \E i \in 1..Len(df.rows) : df.rows[i].Date = date_range[1]
    /\ \E i \in 1..Len(df.rows) : df.rows[i].Date = date_range[2]
    /\ \A i \in 1..Len(df.rows) :
          DateLE(date_range[1], df.rows[i].Date) /\ DateLE(df.rows[i].Date, date_range[2])
    /\ fish_type_filter = {df.rows[i].FishType : i \in 1..Len(df.rows)}
    /\ supplier_filter = {df.rows[i].Supplier : i \in 1..Len(df.rows)}

HasNull(r) == r.FishType = NaN \/ r.Supplier = NaN

(* C7 as stated: a row with a missing fish type or supplier is never in    *)
(* the filtered table.                                                     *)
C7_NullRowsAlwaysExcluded ==
    FilterDone => \A i \in 1..Len(filtered_df) : ~HasNull(filtered_df[i])

(* C7 amended: a row with a missing fish type (supplier) is absent from    *)
(* the filtered table for every selection whose allowed fish types         *)
(* (suppliers) do not list the missing value; the default selection lists  *)
(* it when it is observed, and keeps those rows.                           *)
C7_NullRowsFollowSelection ==
    FilterDone =>
        /\ NaN \notin fish_type_filter =>
              \A i \in 1..Len(filtered_df) : filtered_df[i].FishType # NaN
        /\ NaN \notin supplier_filter =>
              \A i \in 1..Len(filtered_df) : filtered_df[i].Supplier # NaN
        /\ DefaultSelection =>
              \A i \in 1..Len(df.rows) :
                  HasNull(df.rows[i]) => df.rows[i] \in Range(filtered_df)

C7_Witness ==
    /\ pc = "rendered"
    /\ \E i \in 1..Len(df.rows) : df.rows[i].FishType = NaN
    /\ NaN \notin fish_type_filter
    /\ filtered_df # <<>>
    /\ Len(filtered_df) < Len(df.rows)

(* C10: every row of the loaded table and of the filtered table has        *)
(* Profit = Total Sales Value - Total Supply Cost, also when the file      *)
(* carries a Profit column.                                                *)
C10_ProfitIsSalesMinusCost ==
    \A r \in Range(df.rows) \cup Range(filtered_df) : r.Profit = r.Sales - r.Cost

C10_Witness ==
    /\ pc = "rendered"
    /\ "Profit" \in uploaded_file.cols
    /\ option = "Trend Analysis"
    /\ filtered_df # <<>>
    /\ Len(date_range) = 2
    /\ date_range[1] # date_range[2]

Min(a, b) == IF a < b THEN a ELSE b

(* Position of fish type k among the fish types of the filtered table in   *)
(* the order in which they first appear.                                   *)
SeenAt(k) ==
    CHOOSE i \in 1..Len(filtered_df) :
        /\ filtered_df[i].FishType = k
        /\ \A j \in 1..(i - 1) : filtered_df[j].FishType # k

FishGroups == {filtered_df[i].FishType : i \in 1..Len(filtered_df)} \ {NaN}

Revenue(k) == Sum(SelectSeq(filtered_df, LAMBDA r : r.FishType = k), "Sales")

(* top lists Min(TopN, number of groups) distinct groups with their summed *)
(* sales, those that come first in the order Before(_, _).                 *)
IsTop(top, Before(_, _)) ==
    /\ Len(top) = Min(TopN, Cardinality(FishGroups))
    /\ \A i \in 1..Len(top) :
          top[i].key \in FishGroups /\ top[i].value = Revenue(top[i].key)
    /\ \A i, j \in 1..Len(top) : i < j => Before(top[i].key, top[j].key)
    /\ \A k \in FishGroups \ {top[i].key : i \in 1..Len(top)} :
          \A i \in 1..Len(top) : Before(top[i].key, k)

(* C8 as stated: the top 5 are the groups with the largest summed sales in *)
(* descending order, groups of equal sum in the order in which they first  *)
(* appear in the table.                                                    *)
C8_TopFiveTiesInFirstSeenOrder ==
    (pc = "rendered" /\ option = "Product Analysis") =>
        IsTop(result.top_revenue,
              LAMBDA a, b : \/ Revenue(a) > Revenue(b)
                            \/ Revenue(a) = Revenue(b) /\ SeenAt(a) < SeenAt(b))

(* C8 amended: the top 5 are the groups with the largest summed sales in   *)
(* descending order, groups of equal sum in ascending order of the fish    *)
(* type (the order groupby gives its groups); rows without a fish type     *)
(* form no group.                                                          *)
C8_TopFiveTiesInKeyOrder ==
    (pc = "rendered" /\ option = "Product Analysis") =>
        IsTop(result.top_revenue,
              LAMBDA a, b : \/ Revenue(a) > Revenue(b)
                            \/ Revenue(a) = Revenue(b) /\ Rank(a) < Rank(b))

C8_Witness ==
    /\ pc = "rendered"
    /\ option = "Product Analysis"
    /\ Cardinality(FishGroups) > TopN
    /\ Len(result.top_revenue) = TopN
    /\ \E i \in 1..Len(filtered_df) : filtered_df[i].FishType = NaN
    /\ \E i, j \in 1..TopN :
          /\ i < j
          /\ result.top_revenue[i].value = result.top_revenue[j].value
          /\ SeenAt(result.top_revenue[j].key) < SeenAt(result.top_revenue[i].key)
    /\ \E k \in FishGroups :
          /\ \A i \in 1..TopN : result.top_revenue[i].key # k
          /\ Revenue(k) = result.top_revenue[TopN].value

PeriodLE(a, b) == a[1] < b[1] \/ (a[1] = b[1] /\ a[2] <= b[2])

Month(d) == <<d[1], d[2]>>

Year(d) == d[1]

PopulatedMonths == {Month(filtered_df[i].Date) : i \in 1..Len(filtered_df)}

PopulatedYears == {Year(filtered_df[i].Date) : i \in 1..Len(filtered_df)}

FirstYear == CHOOSE y \in PopulatedYears : \A z \in PopulatedYears : y <= z

LastYear == CHOOSE y \in PopulatedYears : \A z \in PopulatedYears : z <= y

(* The calendar months from the first to the last populated month. *)
SpannedMonths ==
    {p \in (FirstYear..LastYear) \X (1..12) :
        /\ \E a \in PopulatedMonths : PeriodLE(a, p)
        /\ \E b \in PopulatedMonths : PeriodLE(p, b)}

(* The calendar years from the first to the last populated year. *)
SpannedYears == FirstYear..LastYear

Periods(series) == {series[i].period : i \in 1..Len(series)}

OnePerPeriod(series, periods) ==
    Periods(series) = periods /\ Len(series) = Cardinality(periods)

(* C9 as stated: every monthly or annual resample has one entry for        *)
(* exactly the calendar months or years that hold a row of the filtered    *)
(* table, and none for a period without rows.                              *)
C9_ResampleOnlyPopulatedPeriods ==
    pc = "rendered" =>
        /\ option = "Overview" =>
              OnePerPeriod(result.monthly_sales, PopulatedMonths)
        /\ option = "Trend Analysis" =>
              /\ OnePerPeriod(result.monthly_profit, PopulatedMonths)
              /\ OnePerPeriod(result.annual_cost, PopulatedYears)
              /\ OnePerPeriod(result.annual_price, PopulatedYears)

MonthlyEntries(series, col) ==
    /\ OnePerPeriod(series, SpannedMonths)
    /\ \A i \in 1..Len(series) :
          series[i].value =
              Sum(SelectSeq(filtered_df, LAMBDA r : Month(r.Date) = series[i].period), col)

AnnualEntries(series, col) ==
    /\ OnePerPeriod(series, SpannedYears)
    /\ \A i \in 1..Len(series) :
          LET rows == SelectSeq(filtered_df, LAMBDA r : Year(r.Date) = series[i].period)
          IN  series[i].n = Len(rows) /\ series[i].sum = Sum(rows, col)

(* C9 amended: every monthly or annual resample of a non-empty filtered    *)
(* table has one entry for every calendar month or year from the first to  *)
(* the last one that holds a row; a period in between without rows has the *)
(* sum 0 (monthly sums) or a null mean (annual means).  An empty filtered  *)
(* table gives an empty resample.                                          *)
C9_ResampleSpansPeriods ==
    pc = "rendered" =>
        /\ option = "Overview" =>
              IF filtered_df = <<>> THEN result.monthly_sales = <<>>
              ELSE MonthlyEntries(result.monthly_sales, "Sales")
        /\ option = "Trend Analysis" =>
              IF filtered_df = <<>>
              THEN /\ result.monthly_profit = <<>>
                   /\ result.annual_cost = <<>>
                   /\ result.annual_price = <<>>
              ELSE /\ MonthlyEntries(result.monthly_profit, "Profit")
                   /\ AnnualEntries(result.annual_cost, "CostPerUnit")
                   /\ AnnualEntries(result.annual_price, "PricePerUnit")

C9_Witness ==
    /\ pc = "rendered"
    /\ option = "Trend Analysis"
    /\ \E i \in 1..Len(result.annual_cost) : result.annual_cost[i].n = 0
    /\ \E i \in 1..Len(result.monthly_profit) :
          /\ result.monthly_profit[i].period \notin PopulatedMonths
          /\ result.monthly_profit[i].value = 0
    /\ DateLT(filtered_df[2].Date, filtered_df[1].Date)

====
